---- MODULE Spec2Model ----
(***************************************************************************)
(* SnowBridge (comeseewhy/sitesee): query stage, satellite-mask overlay,   *)
(* size overlay, draw mode, the zoomend race gate, the stored records    *)
(* (`db`, with the strokes on the drawing canvas in `canvas`) and the     *)
(* layer viewer of web/app.js (`web`).                                     *)
(*                                                                         *)
(* The JavaScript `state` object is the variable `state`; the Leaflet map  *)
(* (zoom, attached layers, interaction lock) is `map`; the window's live   *)
(* interval timers are `timers`; the status line is `status`.  Each        *)
(* exported function is an operator from a world record to a world record, *)
(* composed in the order of the statements of its source; each UI event    *)
(* is one action that applies the whole handler.                           *)
(*                                                                         *)
(* The rendering engine is external.  It is modelled by what the code      *)
(* relies on: a zoom change made through setZoom/setView/fitBounds is      *)
(* instantaneous and delivers `zoomend` synchronously; a layer's addTo may *)
(* throw; and while a rebuild is inside the engine (mask.addTo) further    *)
(* zoomend notifications may be delivered re-entrantly (the "nonzero       *)
(* simulated time" of a rebuild).                                          *)
(***************************************************************************)
EXTENDS Integers, Sequences, FiniteSets, TLC

(* ---------------- bounds of the model ---------------- *)

\* zoomend notifications delivered while the in-flight rebuild pass runs
MaxBurst == 2

\* applyLayerSelection calls of web/app.js that are followed
MaxCalls == 3

\* zoomend notifications delivered while the coalesced (second) pass runs
MaxLateBurst == 1

\* interval timer ids the window can hand out
MaxTimers == 2

\* copies of one layer (same kind, same roll) that can be attached at once
MaxCopies == 2

\* the longest address query, in tokens
MaxTokens == 15

\* the longest list of address rows handed to getSuggestions
MaxRows == 3

\* the most polygons in a MultiPolygon
MaxPolys == 2

\* the widest band of areas, in tenths of a square metre, around zero and
\* around one acre
MaxSmallArea == 30

(* ---------------- program constants ---------------- *)

MinZoom == 11

MaxZoom == 22

satelliteEnableMinZoom == 16

queryZoom == 19

centerMinZoom == 17

drawZoom == 22

startZoom == 14

(* ---------------- data: the registries ---------------- *)

None == "null"

\* a roll read from a feature whose join key is the empty string
EmptyRoll == ""

\* `!roll`: null and the empty string are both falsy
Falsy(r) == r \in {None, EmptyRoll}

Rolls == {"r1", "r2", "r3"}

\* state.parcelByRoll: r3 is an address row whose roll has no parcel polygon
parcelByRoll == {"r1", "r2"}

\* state.snowByRoll: roll -> geometry kind of its +8m zone; r3 has no zone,
\* r2's zone is of a kind polygonLatLngRingsFromGeoJSON does not support
snowByRoll == [r \in {"r1", "r2"} |-> IF r = "r1" THEN "Polygon" ELSE "LineString"]

\* the zoom Leaflet's fitBounds chooses for each parcel's bounds
FitZoom == [r \in Rolls |-> IF r = "r1" THEN 18 ELSE IF r = "r2" THEN 20 ELSE 15]

ZoomLevels == MinZoom..MaxZoom

\* the levels the user zooms to: one below the satellite threshold, one above
UserZoomLevels == {MinZoom, queryZoom}

Max(a, b) == IF a >= b THEN a ELSE b

Min(a, b) == IF a <= b THEN a ELSE b

(* ---------------- layers and status messages ---------------- *)

NoLayer == [kind |-> "none", roll |-> ""]

SatelliteLayer == [kind |-> "satellite", roll |-> ""]

OverlayKinds == {"mask", "snowOutline", "sizeOutline", "sizeLabel"}

Layers == {SatelliteLayer} \cup [kind : OverlayKinds, roll : Rolls]

Layer(k, r) == [kind |-> k, roll |-> r]

Msg(t, r, tag) == [text |-> t, roll |-> r, tag |-> tag]

\* `${st.selectedRoll ?? ""}`
RollText(r) == IF Falsy(r) THEN "" ELSE r

\* the optional `force` argument of the toggles is "true", "false" or "undefined"
\* typeof force === "boolean" ? force : !current
Resolve(force, current) ==
  IF force = "true" THEN TRUE ELSE IF force = "false" THEN FALSE ELSE ~current

FailModes == {"ok", "maskThrows", "outlineThrows"}

SizeFailModes == {"ok", "outlineThrows", "labelThrows"}

VARIABLES state, map, timers, status, emitted, panel, canvas, last, rank, calc, db, web

vars == <<state, map, timers, status, emitted, panel, canvas, last, rank, calc, db, web>>

(* ---------------- the world an operation works on ---------------- *)

\* ghost fields: emitted (statuses of this operation), passes (calls of
\* rebuildViewOverlaysForSelectedRoll in this operation), nestedInFlight /
\* nestedLate (re-entrant zoomend notifications delivered during the
\* in-flight pass / during the coalesced pass), overflow (a model bound was
\* hit)
World == [state |-> state, map |-> map, timers |-> timers, status |-> status,
          emitted |-> <<>>, panel |-> panel, canvas |-> canvas, db |-> db,
          passes |-> 0, nestedInFlight |-> 0, nestedLate |-> 0,
          overflow |-> FALSE, ret |-> FALSE]

\* the operation's environment: how the engine behaves during it
Env(f1, f2, sf, zf, b1, b2) ==
  [fail1 |-> f1, fail2 |-> f2, satFail |-> sf, sizeFail |-> zf, burst1 |-> b1, burst2 |-> b2]

Quiet(env) == [env EXCEPT !.burst1 = 0, !.burst2 = 0]

setStatus1(w, m) == [w EXCEPT !.status = m, !.emitted = Append(@, m)]

\* applyParcelStyle(roll): the active style while roll is the selection of
\* the query stage (A or B by the blink phase), the idle style otherwise
applyParcelStyle(w, roll) ==
  IF roll \notin parcelByRoll THEN w
  ELSE [w EXCEPT !.map.style[roll] =
          IF w.state.selectedRoll = roll /\ w.state.isQueryStage
          THEN (IF w.state.blinkOn THEN "activeA" ELSE "activeB")
          ELSE "idle"]

hasLayer(w, l) == w.map.layers[l] > 0

removeLayer(w, l) == [w EXCEPT !.map.layers[l] = IF @ > 0 THEN @ - 1 ELSE 0]

addLayer(w, l) ==
  IF w.map.layers[l] >= MaxCopies THEN [w EXCEPT !.overflow = TRUE]
  ELSE [w EXCEPT !.map.layers[l] = @ + 1]

(* ---------------- features/satellite.js ---------------- *)

clearViewOverlays(w) ==
  LET dropMask(x) ==
        IF x.state.maskLayer # NoLayer
        THEN [removeLayer(x, x.state.maskLayer) EXCEPT !.state.maskLayer = NoLayer]
        ELSE x
      dropOutline(x) ==
        IF x.state.snowOutlineLayer # NoLayer
        THEN [removeLayer(x, x.state.snowOutlineLayer) EXCEPT !.state.snowOutlineLayer = NoLayer]
        ELSE x
  IN dropOutline(dropMask(w))

\* ret: true when the satellite tile layer is attached afterwards
ensureSatelliteLayer(w, env) ==
  IF hasLayer(w, SatelliteLayer) THEN [w EXCEPT !.ret = TRUE]
  ELSE IF env.satFail THEN [w EXCEPT !.ret = FALSE]
  ELSE [addLayer(w, SatelliteLayer) EXCEPT !.ret = TRUE]

\* polygonLatLngRingsFromGeoJSON(geom) = null for any other geometry kind
ringsSupported(kind) == kind \in {"Polygon", "MultiPolygon"}

RECURSIVE onZoomEnd(_, _, _, _)

\* n re-entrant zoomend notifications, each handled to completion
RECURSIVE deliverZoomEnds(_, _, _, _)
deliverZoomEnds(w, env, n, late) ==
  IF n = 0 THEN w
  ELSE deliverZoomEnds(
         onZoomEnd(IF late THEN [w EXCEPT !.nestedLate = @ + 1]
                   ELSE [w EXCEPT !.nestedInFlight = @ + 1],
                   Quiet(env), 0, 0),
         env, n - 1, late)

\* the engine outcome of the k-th rebuild pass of this operation
FailOf(env, k) == IF k <= 1 THEN env.fail1 ELSE env.fail2

\* ret: true if the overlays exist afterwards.  n: zoomend notifications the
\* engine delivers while this pass is inside mask.addTo; late: this pass is
\* the coalesced one
rebuildViewOverlaysForSelectedRoll(w, failSoft, env, n, late) ==
  LET roll == w.state.selectedRoll
      failed(x) ==
        IF failSoft THEN [x EXCEPT !.ret = FALSE]
        ELSE [setStatus1(x, Msg("Unable to create mask layer", "", "")) EXCEPT !.ret = FALSE]
      addOutline(x, mode) ==
        IF mode = "outlineThrows" THEN failed(x)
        ELSE [addLayer(x, Layer("snowOutline", roll))
                EXCEPT !.state.snowOutlineLayer = Layer("snowOutline", roll), !.ret = TRUE]
      addMask(x, mode) ==
        IF mode = "maskThrows" THEN failed(x)
        ELSE addOutline([addLayer(x, Layer("mask", roll))
                           EXCEPT !.state.maskLayer = Layer("mask", roll)], mode)
      build(x) ==
        IF Falsy(roll) THEN x
        ELSE IF roll \notin DOMAIN snowByRoll THEN x
        ELSE IF ~ringsSupported(snowByRoll[roll]) THEN x
        ELSE addMask(deliverZoomEnds(x, env, n, late), FailOf(env, x.passes))
  IN build([w EXCEPT !.passes = @ + 1, !.ret = FALSE])

\* mutant: the gate never closes, every notification rebuilds
zoomEndGate_open(w) == FALSE

\* the race gate of onZoomEnd: a rebuild is already in flight
zoomEndGate(w) == w.state._satRebuildInFlight

\* mutant: the handler rebuilds whether the overlays are there or not
overlaysPresent_ignored(w) == FALSE

\* onZoomEnd: only recreate overlays if missing
overlaysPresent(w) == w.state.maskLayer # NoLayer /\ w.state.snowOutlineLayer # NoLayer

\* the second half of onZoomEnd: the `finally` block
zoomEndFinally(w, env, b2) ==
  LET coalesced(x) ==
        IF x.state.satOn /\ (x.state.maskLayer = NoLayer \/ x.state.snowOutlineLayer = NoLayer)
        THEN rebuildViewOverlaysForSelectedRoll(clearViewOverlays(x), TRUE, env, b2, TRUE)
        ELSE x
  IN IF w.state._satRebuildPending
     THEN coalesced([w EXCEPT !.state._satRebuildInFlight = FALSE,
                              !.state._satRebuildPending = FALSE])
     ELSE [w EXCEPT !.state._satRebuildInFlight = FALSE]

\* the zoomend handler installed by installSatelliteStickyZoom.  b1 / b2:
\* notifications delivered during its in-flight / coalesced rebuild pass
onZoomEnd(w, env, b1, b2) ==
  LET roll == w.state.selectedRoll
      ensured(x) ==
        IF Falsy(roll) THEN x
        ELSE IF roll \notin DOMAIN snowByRoll THEN x
        ELSE IF overlaysPresent(x) THEN x
        ELSE IF zoomEndGate(x)
             THEN [x EXCEPT !.state._satRebuildPending = TRUE]
        ELSE zoomEndFinally(
               rebuildViewOverlaysForSelectedRoll(
                 clearViewOverlays([x EXCEPT !.state._satRebuildInFlight = TRUE]),
                 TRUE, env, b1, FALSE),
               env, b2)
  IN IF ~w.state.satOn THEN w ELSE ensured(ensureSatelliteLayer(w, env))

\* map.setZoom / setView / fitBounds: instantaneous, zoomend on a change
setZoom(w, z, env) ==
  LET zz == Max(MinZoom, Min(MaxZoom, z))
  IN IF zz = w.map.zoom THEN w
     ELSE onZoomEnd([w EXCEPT !.map.zoom = zz], Quiet(env), 0, 0)

\* mutant: the missing zone is reported but satOn is not reverted
zoneNotFound_keepsOn(w) == setStatus1(w, Msg("Snow zone not found", "", ""))

\* toggleSatellite, the branch for a roll with no entry in snowByRoll
zoneNotFound(w) ==
  setStatus1([w EXCEPT !.state.satOn = FALSE], Msg("Snow zone not found", "", ""))

\* mutant: no `finally`, the flag is left as the rebuild set it
toggleSatelliteFinally_missing(w) == w

\* the `finally` of toggleSatellite
toggleSatelliteFinally(w) == [w EXCEPT !.state._satRebuildInFlight = FALSE]

\* mutant: one message for both failure kinds
rebuildFailedStatus_generic(roll) == Msg("Unable to create mask layer", "", "")

\* toggleSatellite, the failure messaging priority after a failed rebuild
rebuildFailedStatus(roll) ==
  IF ~ringsSupported(snowByRoll[roll])
  THEN Msg("Unable to build mask from snow zone geometry", "", "")
  ELSE Msg("Unable to create mask layer", "", "")

toggleSatellite(w, force, env) ==
  LET next == Resolve(force, w.state.satOn)
      roll == w.state.selectedRoll
      off(x) ==
        setStatus1(IF hasLayer(x, SatelliteLayer) THEN removeLayer(x, SatelliteLayer) ELSE x,
                   Msg("Satellite OFF", RollText(roll), ""))
      rebuilt(x) ==
        IF ~x.ret
        THEN setStatus1([x EXCEPT !.state.satOn = FALSE], rebuildFailedStatus(roll))
        ELSE setStatus1(x, Msg("Satellite ON", roll, ""))
      ensured(x) ==
        IF ~x.ret
        THEN setStatus1([x EXCEPT !.state.satOn = FALSE], Msg("Unable to enable satellite layer", "", ""))
        ELSE IF x.state._satRebuildInFlight
             THEN setStatus1([x EXCEPT !.state._satRebuildPending = TRUE], Msg("Satellite ON", roll, ""))
        ELSE toggleSatelliteFinally(
               rebuilt(rebuildViewOverlaysForSelectedRoll(
                         [x EXCEPT !.state._satRebuildInFlight = TRUE],
                         FALSE, env, env.burst1, FALSE)))
      zoomed(x) ==
        IF roll \notin DOMAIN snowByRoll THEN zoneNotFound(x)
        ELSE ensured(ensureSatelliteLayer(x, env))
      on(x) ==
        IF Falsy(roll) THEN setStatus1(x, Msg("Select a parcel first", "", ""))
        ELSE zoomed(IF x.map.zoom < satelliteEnableMinZoom
                    THEN setZoom(x, satelliteEnableMinZoom, env) ELSE x)
      cleared(x) == IF ~next THEN off(x) ELSE on(x)
  IN cleared(clearViewOverlays([w EXCEPT !.state.satOn = next,
                                         !.state._satRebuildPending = FALSE]))

(* ---------------- features/size.js ---------------- *)

clearSizeOverlays(w) ==
  LET dropOutline(x) ==
        IF x.state.sizeOutlineLayer # NoLayer
        THEN [removeLayer(x, x.state.sizeOutlineLayer) EXCEPT !.state.sizeOutlineLayer = NoLayer]
        ELSE x
      dropLabel(x) ==
        IF x.state.sizeLabelMarker # NoLayer
        THEN [removeLayer(x, x.state.sizeLabelMarker) EXCEPT !.state.sizeLabelMarker = NoLayer]
        ELSE x
  IN dropLabel(dropOutline(w))

toggleSize(w, force, env) ==
  LET next == Resolve(force, w.state.sizeOn)
      roll == w.state.selectedRoll
      rollback(x) ==
        setStatus1([clearSizeOverlays(x) EXCEPT !.state.sizeOn = FALSE],
                   Msg("Error: size overlay failed", "", ""))
      labelled(x) ==
        IF env.sizeFail = "labelThrows" THEN rollback(x)
        ELSE setStatus1(x, Msg("Size", roll, ""))
      outlined(x) ==
        labelled([addLayer(x, Layer("sizeLabel", roll))
                    EXCEPT !.state.sizeLabelMarker = Layer("sizeLabel", roll)])
      cleared(x) ==
        IF ~next THEN setStatus1(x, Msg("Size OFF", RollText(roll), ""))
        ELSE IF Falsy(roll) THEN setStatus1(x, Msg("Select a parcel first", "", ""))
        ELSE IF roll \notin parcelByRoll THEN setStatus1(x, Msg("Parcel not found", "", ""))
        ELSE IF env.sizeFail = "outlineThrows" THEN rollback(x)
        ELSE outlined([addLayer(x, Layer("sizeOutline", roll))
                         EXCEPT !.state.sizeOutlineLayer = Layer("sizeOutline", roll)])
  IN cleared(clearSizeOverlays([w EXCEPT !.state.sizeOn = next]))

(* ---------------- features/draw.js ---------------- *)

\* mutant: the handlers of the map are left as they are
lockMapInteractions_noop(w, lock) == w

lockMapInteractions(w, lock) == [w EXCEPT !.map.locked = lock]

enableDrawMode(w, ensureSatelliteOn, env) ==
  LET roll == w.state.selectedRoll
      shown(x) ==
        [setStatus1([x EXCEPT !.canvas.display = "block", !.canvas.pointerEvents = "auto"],
                    Msg("Draw ON", RollText(roll), ""))
           EXCEPT !.state._drawHandlers = TRUE]
      satReady(x) ==
        IF ensureSatelliteOn /\ ~x.state.satOn THEN x
        ELSE shown(setZoom(lockMapInteractions(x, TRUE), drawZoom, env))
      enabled(x) ==
        satReady(IF ensureSatelliteOn /\ ~x.state.satOn
                 THEN toggleSatellite(x, "true", env) ELSE x)
  IN enabled([w EXCEPT !.state.drawEnabled = TRUE])

\* mutant: leaving draw mode also switches the satellite overlay off
disableDrawMode_satelliteOff(w) ==
  [setStatus1([lockMapInteractions([w EXCEPT !.state.drawEnabled = FALSE,
                                             !.state.satOn = FALSE], FALSE)
                 EXCEPT !.canvas.pointerEvents = "none"],
              Msg("Draw OFF", RollText(w.state.selectedRoll), ""))
     EXCEPT !.state._drawHandlers = FALSE]

disableDrawMode(w) ==
  [setStatus1([lockMapInteractions([w EXCEPT !.state.drawEnabled = FALSE], FALSE)
                 EXCEPT !.canvas.pointerEvents = "none"],
              Msg("Draw OFF", RollText(w.state.selectedRoll), ""))
     EXCEPT !.state._drawHandlers = FALSE]

toggleDraw(w, force, env) ==
  LET next == Resolve(force, w.state.drawEnabled)
      satReady(x) == IF ~x.state.satOn THEN x ELSE enableDrawMode(x, FALSE, env)
  IN IF next
     THEN satReady(IF ~w.state.satOn THEN toggleSatellite(w, "true", env) ELSE w)
     ELSE setStatus1([disableDrawMode(w) EXCEPT !.canvas.display = "none"],
                     Msg("Draw OFF", RollText(w.state.selectedRoll), ""))

(* ---------------- ui/panel.js ---------------- *)

\* openPanel(state, actions): renders and shows the panel for the active roll
uiOpenPanel(w) == IF Falsy(w.state.selectedRoll) THEN w ELSE [w EXCEPT !.panel = TRUE]

uiClosePanel(w) == [w EXCEPT !.panel = FALSE]

(* ---------------- map/queryStage.js ---------------- *)

\* mutant: the handle is dropped without clearInterval
stopBlink_leak(w) == [w EXCEPT !.state.blinkTimer = 0, !.state.blinkOn = FALSE]

stopBlink(w) ==
  [w EXCEPT !.timers = IF w.state.blinkTimer # 0 THEN @ \ {w.state.blinkTimer} ELSE @,
            !.state.blinkTimer = 0, !.state.blinkOn = FALSE]

\* window.setInterval: a handle no live timer has
setInterval(w) ==
  LET free == (1..MaxTimers) \ w.timers
  IN IF free = {} THEN [w EXCEPT !.overflow = TRUE, !.ret = FALSE]
     ELSE LET id == CHOOSE i \in free : \A j \in free : i <= j
          IN [w EXCEPT !.timers = @ \cup {id}, !.state.blinkTimer = id]

\* mutant: a new interval is started without stopping the old one
startBlink_noStop(w) == setInterval([w EXCEPT !.state.blinkOn = TRUE])

startBlink(w) == setInterval([stopBlink(w) EXCEPT !.state.blinkOn = TRUE])

fitToRoll(w, roll, env) ==
  IF roll \notin parcelByRoll THEN w ELSE setZoom(w, FitZoom[roll], env)

\* mutant: the zoom is set to the query zoom whatever it was
zoomTight_exact(w, env) == setZoom(w, queryZoom, env)

zoomTight(w, env) == setZoom(w, Max(w.map.zoom, queryZoom), env)

\* mutant: only the new selection is restyled
enterRestyle_newOnly(w, old) == applyParcelStyle(w, w.state.selectedRoll)

\* enterQueryStage: restyle old then new
enterRestyle(w, old) ==
  applyParcelStyle(IF ~Falsy(old) THEN applyParcelStyle(w, old) ELSE w, w.state.selectedRoll)

\* the interval callback of startBlink
blinkTick(w) ==
  LET flipped(x) == IF ~Falsy(x.state.selectedRoll)
                    THEN applyParcelStyle(x, x.state.selectedRoll) ELSE x
  IN flipped([w EXCEPT !.state.blinkOn = ~@])

\* opts: [center |-> BOOLEAN, source |-> STRING]
enterQueryStage(w, roll, opts, env) ==
  LET shown(x) == IF x.panel THEN uiOpenPanel(x) ELSE x
      centred(x) ==
        shown(setStatus1(startBlink(zoomTight(fitToRoll(x, roll, env), env)),
                         Msg("Query", roll, opts.source)))
      selected(x) ==
        centred(IF opts.center THEN setZoom(x, Max(x.map.zoom, centerMinZoom), env) ELSE x)
  IN selected(enterRestyle([w EXCEPT !.state.selectedRoll = roll, !.state.isQueryStage = TRUE],
                           w.state.selectedRoll))

\* the last steps of exitQueryStage: clear the selection, restyle the
\* outgoing roll, report Ready
exitClearSelection(w) ==
  setStatus1(
    IF ~Falsy(w.state.selectedRoll)
    THEN applyParcelStyle([w EXCEPT !.state.isQueryStage = FALSE, !.state.selectedRoll = None],
                          w.state.selectedRoll)
    ELSE [w EXCEPT !.state.isQueryStage = FALSE, !.state.selectedRoll = None],
    Msg("Ready", "", ""))

\* exitQueryStage: if (state.drawEnabled) toggleDraw(false)
exitDraw(w, env) == IF w.state.drawEnabled THEN toggleDraw(w, "false", env) ELSE w

\* mutant: the overlays are toggled, not forced off
exitQueryStage_unforced(w, env) ==
  exitClearSelection(
    exitDraw(toggleSize(toggleSatellite(stopBlink(w), "undefined", env), "undefined", env), env))

\* mutant: the selection is cleared before the overlays are torn down
exitQueryStage_clearFirst(w, env) ==
  setStatus1(
    exitDraw(toggleSize(toggleSatellite(
      [stopBlink(w) EXCEPT !.state.isQueryStage = FALSE, !.state.selectedRoll = None],
      "false", env), "false", env), env),
    Msg("Ready", "", ""))

\* mutant: the size overlay is not torn down
exitQueryStage_skipSize(w, env) ==
  exitClearSelection(exitDraw(toggleSatellite(stopBlink(w), "false", env), env))

exitQueryStage(w, env) ==
  exitClearSelection(
    exitDraw(toggleSize(toggleSatellite(stopBlink(w), "false", env), "false", env), env))

(* ---------------- app.js: wiring ---------------- *)

closePanel(w, env) == exitQueryStage(uiClosePanel(w), env)

\* mutant: every left-click enters query stage
onParcelClick_reenter(w, roll, env) ==
  enterQueryStage(w, roll, [center |-> FALSE, source |-> "left-click"], env)

onParcelClick(w, roll, env) ==
  IF w.state.isQueryStage /\ w.state.selectedRoll = roll THEN uiOpenPanel(w)
  ELSE enterQueryStage(w, roll, [center |-> FALSE, source |-> "left-click"], env)

\* roll: the roll of the best-ranked address row, None when nothing matches
onGo(w, roll, env) ==
  IF roll = None THEN setStatus1(w, Msg("No match", "", ""))
  ELSE enterQueryStage(w, roll, [center |-> TRUE, source |-> "address"], env)

(* ---------------- data/addressIndex.js ---------------- *)

\* a string is the sequence of its characters
Whitespace == {" ", "\t"}

\* String.prototype.toUpperCase on one character of the model's alphabet
toUpperCase(c) == IF c = "a" THEN "A" ELSE IF c = "b" THEN "B" ELSE c

\* .replace(/\s+/g, " "): every run of whitespace becomes one space
RECURSIVE collapseWhitespace(_, _)
collapseWhitespace(s, inRun) ==
  IF s = <<>> THEN <<>>
  ELSE IF Head(s) \in Whitespace
       THEN (IF inRun THEN <<>> ELSE <<" ">>) \o collapseWhitespace(Tail(s), TRUE)
       ELSE <<Head(s)>> \o collapseWhitespace(Tail(s), FALSE)

\* String.prototype.trim
RECURSIVE trim(_)
trim(s) ==
  IF s = <<>> THEN s
  ELSE IF Head(s) \in Whitespace THEN trim(Tail(s))
  ELSE IF s[Len(s)] \in Whitespace THEN trim(SubSeq(s, 1, Len(s) - 1))
  ELSE s

normalizeAddr(s) ==
  LET notPunct(c) == c \notin {".", ","}
  IN trim(collapseWhitespace(
            SelectSeq([i \in 1..Len(s) |-> toUpperCase(s[i])], notPunct), FALSE))

\* norm.split(" ").filter(Boolean); cur is the token being read
RECURSIVE splitTokens(_, _)
splitTokens(s, cur) ==
  IF s = <<>> THEN (IF cur = <<>> THEN <<>> ELSE <<cur>>)
  ELSE IF Head(s) = " "
       THEN (IF cur = <<>> THEN <<>> ELSE <<cur>>) \o splitTokens(Tail(s), <<>>)
       ELSE splitTokens(Tail(s), Append(cur, Head(s)))

tokenizeNorm(norm) == splitTokens(norm, <<>>)

startsWith(s, p) == Len(p) <= Len(s) /\ SubSeq(s, 1, Len(p)) = p

includes(s, p) ==
  \E i \in 0..(Len(s) - Len(p)) : SubSeq(s, i + 1, i + Len(p)) = p

\* -Infinity: below every score
NegInfinity == -1

\* the best match of one query token among the candidate's tokens
bestTokenMatch(qt, cTokens) ==
  IF \E i \in DOMAIN cTokens : cTokens[i] = qt THEN 60
  ELSE IF \E i \in DOMAIN cTokens : startsWith(cTokens[i], qt) THEN 40
  ELSE IF \E i \in DOMAIN cTokens : includes(cTokens[i], qt) THEN 10
  ELSE 0

RECURSIVE sumTokenMatches(_, _)
sumTokenMatches(qTokens, cTokens) ==
  IF qTokens = <<>> THEN 0
  ELSE bestTokenMatch(Head(qTokens), cTokens) + sumTokenMatches(Tail(qTokens), cTokens)

scoreAddressCandidate(qNorm, candNorm) ==
  IF qNorm = <<>> \/ candNorm = <<>> THEN NegInfinity
  ELSE IF candNorm = qNorm THEN 1000
  ELSE IF startsWith(candNorm, qNorm) THEN 800
  ELSE sumTokenMatches(tokenizeNorm(qNorm), tokenizeNorm(candNorm))
         + (IF includes(candNorm, qNorm) THEN 120 ELSE 0)

\* String.prototype.localeCompare on the model's alphabet, as the root
\* collation orders it: whitespace, punctuation, digits, letters; letters of
\* the two cases share a primary weight, lower case first among equals
primaryWeight(c) ==
  IF c = "\t" THEN 1 ELSE IF c = " " THEN 2 ELSE IF c = "," THEN 3 ELSE IF c = "." THEN 4
  ELSE IF c = "1" THEN 5 ELSE IF c = "2" THEN 6 ELSE IF c = "3" THEN 7
  ELSE IF c \in {"a", "A"} THEN 8 ELSE 9

tertiaryWeight(c) == IF c \in {"A", "B"} THEN 1 ELSE 0

collationWeight(c, level) == IF level = "primary" THEN primaryWeight(c) ELSE tertiaryWeight(c)

\* lexicographic comparison of two strings by one level of weights
RECURSIVE compareLevel(_, _, _)
compareLevel(a, b, level) ==
  IF a = <<>> /\ b = <<>> THEN 0
  ELSE IF a = <<>> THEN -1
  ELSE IF b = <<>> THEN 1
  ELSE IF collationWeight(Head(a), level) < collationWeight(Head(b), level) THEN -1
  ELSE IF collationWeight(Head(a), level) > collationWeight(Head(b), level) THEN 1
  ELSE compareLevel(Tail(a), Tail(b), level)

localeCompare(a, b) ==
  IF compareLevel(a, b, "primary") # 0 THEN compareLevel(a, b, "primary")
  ELSE compareLevel(a, b, "tertiary")

\* mutant: the tie-break stops at the label
compareScored_labelOnly(a, b) ==
  IF b.s # a.s THEN b.s - a.s ELSE localeCompare(a.r.label, b.r.label)

\* the comparator of getSuggestions on scored rows [r, s]
compareScored(a, b) ==
  IF b.s # a.s THEN b.s - a.s
  ELSE IF localeCompare(a.r.label, b.r.label) # 0 THEN localeCompare(a.r.label, b.r.label)
  ELSE IF localeCompare(a.r.roll, b.r.roll) # 0 THEN localeCompare(a.r.roll, b.r.roll)
  ELSE IF a.r.lat # b.r.lat THEN a.r.lat - b.r.lat
  ELSE IF a.r.lng # b.r.lng THEN a.r.lng - b.r.lng
  ELSE localeCompare(a.r.norm, b.r.norm)

\* Array.prototype.sort is stable: x goes after every element not above it
RECURSIVE insertScored(_, _)
insertScored(sorted, x) ==
  IF sorted = <<>> THEN <<x>>
  ELSE IF compareScored(sorted[Len(sorted)], x) <= 0 THEN Append(sorted, x)
  ELSE Append(insertScored(SubSeq(sorted, 1, Len(sorted) - 1), x), sorted[Len(sorted)])

RECURSIVE sortScored(_, _)
sortScored(sorted, rest) ==
  IF rest = <<>> THEN sorted
  ELSE sortScored(insertScored(sorted, Head(rest)), Tail(rest))

\* mutant: rows of score zero are kept
keepScore_nonNegative(s) == s >= 0

\* getSuggestions: if (s > 0) scored.push
keepScore(s) == s > 0

getSuggestions(query, rows, limit) ==
  LET qNorm == normalizeAddr(query)
      scoredRow(i) == [r |-> rows[i], s |-> scoreAddressCandidate(qNorm, rows[i].norm)]
      kept(x) == keepScore(x.s)
      scored == SelectSeq([i \in 1..Len(rows) |-> scoredRow(i)], kept)
      take(sorted) == [i \in 1..Min(Max(0, limit), Len(sorted)) |-> sorted[i].r]
  IN IF qNorm = <<>> THEN <<>> ELSE take(sortScored(<<>>, scored))

\* buildAddressIndex: one row of the index
AddressRow(label, roll, lat, lng) ==
  [label |-> label, norm |-> normalizeAddr(label), roll |-> roll, lat |-> lat, lng |-> lng]

\* a query of n tokens
RECURSIVE Words(_)
Words(n) == IF n <= 1 THEN <<"A">> ELSE Words(n - 1) \o <<" ", "A">>

\* state.addresses: rows that tie on label, on roll, on latitude; a label that
\* differs in case and punctuation only; a row that never
\* matches; a long label and the same label behind another token
AddressRows ==
  {AddressRow(<<"A", " ", "B">>, <<"1">>, 1, 1),
   AddressRow(<<"A", " ", "B">>, <<"2">>, 1, 1),
   AddressRow(<<"A", " ", "B">>, <<"1">>, 2, 1),
   AddressRow(<<"A", " ", "B">>, <<"1">>, 1, 2),
   AddressRow(<<"a", " ", "b", ".">>, <<"1">>, 1, 1),
   AddressRow(<<"1">>, <<"3">>, 1, 1),
   AddressRow(Words(MaxTokens), <<"1">>, 1, 1),
   AddressRow(<<"B", " ">> \o Words(MaxTokens), <<"2">>, 1, 1)}

\* the text of the address box
Queries ==
  {<<" ", "a", "\t", " ", "B", ".", " ">>,
   <<" ", ".">>,
   <<"A">>,
   Words(MaxTokens)}

Limits == {0, 1, MaxRows}

\* the lists of up to MaxRows distinct rows, in every order
RowLists ==
  UNION {{rs \in [1..n -> AddressRows] : \A i, j \in 1..n : i # j => rs[i] # rs[j]} : n \in 0..MaxRows}

Reorderings(rs) ==
  {p \in [1..Len(rs) -> 1..Len(rs)] : \A i, j \in 1..Len(rs) : i # j => p[i] # p[j]}

(* ---------------- map/geometry.js ---------------- *)

\* a value that may be null: no element, or the one value
Null == <<>>

Some(v) == <<v>>

\* one acre, 4046.8564224 square metres, is ten square chains of
\* 20.1168 = ChainNum / ChainDen metres
ChainNum == 12573

ChainDen == 625

\* n * ChainDen / ChainNum as quotient and remainder, within 32 bits
perChain(n) ==
  [q |-> ((n \div ChainNum) * ChainDen) + (((n % ChainNum) * ChainDen) \div ChainNum),
   r |-> ((n % ChainNum) * ChainDen) % ChainNum]

\* m2 / 4046.8564224 in hundredths, for m2 in tenths of a square metre: the
\* whole hundredths q and the remainder r over ChainNum * ChainNum
acresHundredths(tenths) ==
  LET a == perChain(tenths)
      b == perChain(a.q)
      num == (b.r * ChainNum) + (a.r * ChainDen)
  IN [q |-> b.q + (num \div (ChainNum * ChainNum)), r |-> num % (ChainNum * ChainNum)]

\* a number is a finite value in tenths of a square metre, NaN or Infinity;
\* areaM2FromLayer also returns null
Number(tenths) == [kind |-> "number", tenths |-> tenths]

NaN == [kind |-> "NaN", tenths |-> 0]

Infinity == [kind |-> "Infinity", tenths |-> 0]

NoArea == [kind |-> "null", tenths |-> 0]

\* Number.isFinite(m2)
isFinite(m2) == m2.kind = "number"

\* mutant: the fraction is cut off
toFixed0_truncated(tenths) == ToString(tenths \div 10)

\* (tenths / 10).toFixed(0): the nearest integer, the larger one on a tie
toFixed0(tenths) == ToString((tenths + 5) \div 10)

\* (hundredths / 100) written with two decimals
twoDecimals(hundredths) ==
  ToString(hundredths \div 100) \o "." \o ToString((hundredths % 100) \div 10)
    \o ToString(hundredths % 10)

\* acres.toFixed(2) for acres = m2 / 4046.8564224: the nearest hundredth
acresToFixed2(tenths) ==
  LET h == acresHundredths(tenths)
  IN twoDecimals(IF 2 * h.r >= ChainNum * ChainNum THEN h.q + 1 ELSE h.q)

\* acres >= 1
atLeastOneAcre(tenths) == acresHundredths(tenths).q >= 100

\* mutant: the area is always written in square metres
fmtArea_squareMetres(m2) ==
  IF ~isFinite(m2) THEN "n/a" ELSE toFixed0(m2.tenths) \o " m²"

fmtArea(m2) ==
  IF ~isFinite(m2) THEN "n/a"
  ELSE IF atLeastOneAcre(m2.tenths) THEN acresToFixed2(m2.tenths) \o " acres"
  ELSE toFixed0(m2.tenths) \o " m²"

\* GeoJSON geometries; a position is <<lng, lat>>
NoGeom == [type |-> "null", coordinates |-> <<>>]

Polygon(rings) == [type |-> "Polygon", coordinates |-> rings]

MultiPolygon(polys) == [type |-> "MultiPolygon", coordinates |-> polys]

toLatLngRing(ring) == [i \in 1..Len(ring) |-> <<ring[i][2], ring[i][1]>>]

polygonLatLngRingsFromGeoJSON(geom) ==
  IF geom.type = "null" THEN Null
  ELSE IF geom.type = "Polygon"
    THEN Some([i \in 1..Len(geom.coordinates) |-> toLatLngRing(geom.coordinates[i])])
  ELSE IF geom.type = "MultiPolygon"
    THEN Some([k \in 1..Len(geom.coordinates) |->
                 [i \in 1..Len(geom.coordinates[k]) |-> toLatLngRing(geom.coordinates[k][i])]])
  ELSE Null

outerWorld == <<<<85, -180>>, <<85, 180>>, <<-85, 180>>, <<-85, -180>>>>

\* rings?.[0]?.length
hasOuterRing(rings) == Len(rings) >= 1 /\ Len(rings[1]) > 0

\* mutant: every ring of a polygon becomes a hole
maskHoles_allRings(geom, ringsOrPolys) ==
  LET rings == IF ringsOrPolys = Null THEN <<>> ELSE ringsOrPolys[1]
  IN IF geom.type = "Polygon" THEN rings
     ELSE IF geom.type = "MultiPolygon" THEN [n \in 1..Len(rings) |-> rings[n][1]]
     ELSE <<>>

\* createOutsideMaskFromGeom: the holes pushed for the geometry
maskHoles(geom, ringsOrPolys) ==
  LET rings == IF ringsOrPolys = Null THEN <<>> ELSE ringsOrPolys[1]
      outerOf(i) == rings[i][1]
      kept == SelectSeq([i \in 1..Len(rings) |-> i], LAMBDA i : hasOuterRing(rings[i]))
  IN IF geom.type = "Polygon"
       THEN IF hasOuterRing(rings) THEN <<rings[1]>> ELSE <<>>
     ELSE IF geom.type = "MultiPolygon"
       THEN [n \in 1..Len(kept) |-> outerOf(kept[n])]
     ELSE <<>>

\* Leaflet.polygon([outerWorld, ...holes]), or null
createOutsideMaskFromGeom(geom, ringsOrPolys, L) ==
  IF ~L \/ geom.type = "null" THEN Null
  ELSE Some([latlngs |-> <<outerWorld>> \o maskHoles(geom, ringsOrPolys)])

\* the areas handed to fmtArea, in tenths of a square metre: small ones, the
\* ones around one acre, and large ones
AreaTenths ==
  (0..MaxSmallArea) \cup ((40469 - MaxSmallArea)..(40469 + MaxSmallArea))
    \cup {40000, 50000, 50000000}

Areas == {Number(t) : t \in AreaTenths} \cup {NaN, Infinity, NoArea}

RingA == <<<<0, 0>>, <<4, 0>>, <<4, 2>>, <<0, 0>>>>

InnerA == <<<<1, 0>>, <<3, 0>>, <<3, 1>>, <<1, 0>>>>

RingB == <<<<5, 5>>, <<6, 5>>, <<6, 7>>, <<5, 5>>>>

\* the geometries of snow zones: polygons with and without inner rings,
\* multi-polygons of up to MaxPolys polygons, geometries with no coordinates,
\* and kinds that cannot be masked
RECURSIVE PolyLists(_)
PolyLists(n) ==
  IF n = 0 THEN {<<>>}
  ELSE PolyLists(n - 1)
         \cup {Append(ps, p) : ps \in {x \in PolyLists(n - 1) : Len(x) = n - 1},
                               p \in {<<RingA>>, <<RingA, InnerA>>, <<RingB>>}}

Geoms ==
  {NoGeom, Polygon(<<>>), Polygon(<<RingA>>), Polygon(<<RingA, InnerA>>), Polygon(<<RingB>>),
   [type |-> "LineString", coordinates |-> RingA],
   [type |-> "Point", coordinates |-> <<0, 0>>]}
    \cup {MultiPolygon(ps) : ps \in PolyLists(MaxPolys)}

(* ---------------- the state machine ---------------- *)

(* ---------------- core/storage.js, features/draw.js: canvas ---------------- *)

\* core/storage.js loadDB: the records of a browser with nothing stored
loadDB == [r \in Rolls \cup {EmptyRoll} |-> Null]

\* getRecord(roll): db[String(roll)] || null
getRecord(w, roll) == w.db[roll]

setRecord(w, roll, rec) == [w EXCEPT !.db[roll] = Some(rec)]

deleteRecord(w, roll) == [w EXCEPT !.db[roll] = Null]

\* the listeners installed by enableDrawMode: a stroke is sprayed only while
\* drawEnabled; the canvas remembers under which selection it was painted
onDown(w) ==
  IF ~w.state.drawEnabled THEN w
  ELSE [w EXCEPT !.canvas.strokes = @ \cup {w.state.selectedRoll},
                 !.state.hasUnsavedDrawing = TRUE]

clearCanvas(w) == [w EXCEPT !.canvas.strokes = {}]

\* canvas.toDataURL: the picture of the strokes on the canvas, or null (a
\* capture shorter than 200 characters counts as failed)
canvasToDataUrl(w, capture) == IF capture = "ok" THEN Some(w.canvas.strokes) ELSE Null

\* app.js: applyParcelStyle for every key of parcelByRoll
RECURSIVE restyleParcels(_, _)
restyleParcels(w, rolls) ==
  IF rolls = {} THEN w
  ELSE restyleParcels(applyParcelStyle(w, CHOOSE r \in rolls : TRUE),
                      rolls \ {CHOOSE r \in rolls : TRUE})

restyleAllParcels(w) == restyleParcels(w, parcelByRoll)

(* ---------------- features/records.js ---------------- *)

\* !!getRecord(roll)?.drawingDataUrl
hasStoredDrawing(w, roll) ==
  getRecord(w, roll) # Null /\ getRecord(w, roll)[1].drawingDataUrl # Null

\* mutant: a drawing is stored whether or not the roll has a request
hasRequest_ignored(w, roll) == TRUE

\* existing?.request
hasRequest(w, roll) ==
  getRecord(w, roll) # Null /\ getRecord(w, roll)[1].request # Null

\* {...existing, drawingDataUrl: dataUrl}
withDrawing(existing, dataUrl) ==
  IF existing = Null THEN [request |-> Null, drawingDataUrl |-> dataUrl]
  ELSE [existing[1] EXCEPT !.drawingDataUrl = dataUrl]

\* {...(getRecord(roll) || {}), request: {severity: sev}}: the other answers
\* of the form are free text
withRequest(existing, sev) ==
  IF existing = Null THEN [request |-> Some(sev), drawingDataUrl |-> Null]
  ELSE [existing[1] EXCEPT !.request = Some(sev)]

saveSnowbridge(w, capture, env) ==
  LET roll == w.state.selectedRoll
      finish(x) == IF x.state.drawEnabled THEN toggleDraw(x, "false", env) ELSE x
      stored(x) ==
        finish(setStatus1(restyleAllParcels([x EXCEPT !.state.hasUnsavedDrawing = FALSE]),
                          Msg("Saved snowbridge", roll, "")))
  IN IF Falsy(roll) THEN setStatus1(w, Msg("Select a parcel first", "", ""))
     ELSE IF ~w.state.hasUnsavedDrawing /\ ~hasStoredDrawing(w, roll)
          THEN setStatus1(w, Msg("Error: no drawing to save", "", ""))
     ELSE IF canvasToDataUrl(w, capture) = Null
          THEN setStatus1(w, Msg("Error: drawing capture failed", "", ""))
     ELSE IF ~hasRequest(w, roll)
          THEN setStatus1(w, Msg("Error: add Request before saving", "", ""))
     ELSE stored(setRecord(w, roll, withDrawing(getRecord(w, roll), canvasToDataUrl(w, capture))))

\* ok: the answer to window.confirm
deleteSnowbridge(w, ok) ==
  LET roll == w.state.selectedRoll
  IN IF Falsy(roll) THEN setStatus1(w, Msg("Select a parcel first", "", ""))
     ELSE IF getRecord(w, roll) = Null
          THEN setStatus1(w, Msg("Error: nothing stored for this parcel", "", ""))
     ELSE IF ~ok THEN w
     ELSE setStatus1(
            restyleAllParcels([clearCanvas(deleteRecord(w, roll))
                                 EXCEPT !.state.hasUnsavedDrawing = FALSE]),
            Msg("Deleted snowbridge", roll, ""))

\* String.prototype.toLowerCase on one character of the answers' alphabet
toLowerCase(c) == IF c = "R" THEN "r" ELSE IF c = "E" THEN "e" ELSE IF c = "D" THEN "d" ELSE c

\* the severities the form accepts, and their names in the record
Severities ==
  [green |-> <<"g", "r", "e", "e", "n">>, yellow |-> <<"y", "e", "l", "l", "o", "w">>,
   red |-> <<"r", "e", "d">>]

\* String(severityRaw).toLowerCase().trim(), then one of the three or null
severityOf(severityRaw) ==
  LET severity == trim([i \in DOMAIN severityRaw |-> toLowerCase(severityRaw[i])])
  IN IF \E k \in DOMAIN Severities : Severities[k] = severity
     THEN Some(CHOOSE k \in DOMAIN Severities : Severities[k] = severity)
     ELSE Null

\* severityRaw: the answer to the first prompt, "" when it is cancelled
openRequestForm(w, severityRaw) ==
  LET roll == w.state.selectedRoll
      asked(sev) ==
        IF sev = Null THEN setStatus1(w, Msg("Error: invalid severity", "", ""))
        ELSE setStatus1(restyleAllParcels(setRecord(w, roll, withRequest(getRecord(w, roll), sev[1]))),
                        Msg("Request saved", roll, sev[1]))
  IN IF Falsy(roll) THEN setStatus1(w, Msg("Select a parcel first", "", ""))
     ELSE IF ~(w.state.hasUnsavedDrawing \/ hasStoredDrawing(w, roll))
          THEN setStatus1(w, Msg("Error: draw snowbridge before Request", "", ""))
     ELSE asked(severityOf(severityRaw))

(* ---------------- web/app.js: the layer viewer ---------------- *)

\* layers.json: two GeoJSON layers and one of a type v1 does not support
layerRegistry ==
  <<[id |-> "boundary-2020", tags |-> {"boundary", "2020"}, type |-> "geojson"],
    [id |-> "sample-2021", tags |-> {"sample", "2021"}, type |-> "geojson"],
    [id |-> "ortho-2020", tags |-> {"ortho", "2020"}, type |-> "raster"]>>

\* the first layer with all the tags needed, else the first with the product
pickLayer(product, year) ==
  LET tagsNeeded == {product} \cup (IF year = "" THEN {} ELSE {year})
      matches == {i \in DOMAIN layerRegistry : tagsNeeded \subseteq layerRegistry[i].tags}
      byProduct == {i \in DOMAIN layerRegistry : product \in layerRegistry[i].tags}
      first(is) == layerRegistry[CHOOSE i \in is : \A j \in is : i <= j]
  IN IF matches # {} THEN Some(first(matches))
     ELSE IF byProduct # {} THEN Some(first(byProduct))
     ELSE Null

\* the page after main(): registry loaded, no data layer; a call is the
\* layer id it is fetching, or Null when it is not waiting
main ==
  [activeDataLayer |-> 0, attached |-> {}, status |-> [text |-> "Ready.", name |-> ""],
   calls |-> 0, pending |-> [c \in 1..MaxCalls |-> Null]]

setStatus(v, text, name) == [v EXCEPT !.status = [text |-> text, name |-> name]]

\* map.removeLayer
webRemoveLayer(v, layer) == [v EXCEPT !.attached = @ \ {layer}]

\* applyLayerSelection up to its `await`: call number c is made
applyLayerSelection(v, product, year) ==
  LET c == v.calls + 1
      layerDef == pickLayer(product, year)
      loading(x) ==
        IF layerDef[1].type = "geojson"
        THEN [x EXCEPT !.pending[c] = Some(layerDef[1].id)]
        ELSE setStatus(x, "Unsupported layer type", layerDef[1].type)
      removed(x) ==
        loading(IF x.activeDataLayer # 0 THEN webRemoveLayer(x, x.activeDataLayer) ELSE x)
  IN IF layerDef = Null THEN setStatus([v EXCEPT !.calls = c], "No layer found", product)
     ELSE removed(setStatus([v EXCEPT !.calls = c], "Loading layer", layerDef[1].id))

\* applyLayerSelection after its `await`: loadGeoJsonLayer of call c has
\* returned the layer (a new object, named by the call) or has thrown
loadGeoJsonLayerSettled(v, c, outcome) ==
  IF outcome = "ok"
  THEN setStatus([v EXCEPT !.pending[c] = Null, !.activeDataLayer = c,
                           !.attached = @ \cup {c}],
                 "Loaded", v.pending[c][1])
  ELSE setStatus([v EXCEPT !.pending[c] = Null], "Layer error", v.pending[c][1])

createState ==
  [selectedRoll |-> None, isQueryStage |-> FALSE, blinkTimer |-> 0, blinkOn |-> FALSE,
   maskLayer |-> NoLayer, snowOutlineLayer |-> NoLayer,
   sizeOutlineLayer |-> NoLayer, sizeLabelMarker |-> NoLayer,
   drawEnabled |-> FALSE, hasUnsavedDrawing |-> FALSE, _drawHandlers |-> FALSE, satOn |-> FALSE, sizeOn |-> FALSE,
   _satRebuildInFlight |-> FALSE, _satRebuildPending |-> FALSE]

\* no call of a geometry helper is being followed
NoCalc ==
  [fn |-> "none", m2 |-> NoArea, geom |-> NoGeom, L |-> FALSE, text |-> "", mask |-> Null,
   done |-> FALSE]

\* no call of getSuggestions is being followed
NoRanking ==
  [query |-> <<>>, rows |-> <<>>, limit |-> 0, out |-> <<>>, again |-> <<>>, runs |-> 0]

\* the state after init(): map created, data loaded, viewport fitted
Init ==
  /\ state = createState
  /\ map = [zoom |-> startZoom, layers |-> [l \in Layers |-> 0], locked |-> FALSE,
            style |-> [r \in parcelByRoll |-> "idle"]]
  /\ timers = {}
  /\ status = Msg("Ready: addresses loaded", "", "")
  /\ emitted = <<>>
  /\ panel = FALSE
  /\ canvas = [display |-> "none", pointerEvents |-> "none", strokes |-> {}]
  /\ db = loadDB
  /\ web = main
  /\ last = [op |-> "init", arg |-> "", from |-> None, repeat |-> FALSE, passes |-> 0,
             nestedInFlight |-> 0, nestedLate |-> 0]
  /\ rank = NoRanking
  /\ calc = NoCalc

\* the operation `op` with argument `arg` took World to w.  `last` records
\* it: for an exit the selection it started from, whether it is an enter or
\* exit that repeats the operation before it, and for a zoomend (a satellite
\* toggle) the rebuild passes and re-entrant notifications it saw
Commit(w, op, arg) ==
  /\ ~w.overflow
  /\ state' = w.state
  /\ map' = w.map
  /\ timers' = w.timers
  /\ status' = w.status
  /\ emitted' = w.emitted
  /\ panel' = w.panel
  /\ canvas' = w.canvas
  /\ db' = w.db
  /\ web' = web
  /\ rank' = rank
  /\ calc' = calc
  /\ last' = [op |-> op, arg |-> arg,
              from |-> IF op \in {"exit", "closePanel"} THEN state.selectedRoll ELSE None,
              repeat |-> (op \in {"enter", "exit"} /\ last.op = op /\ last.arg = arg),
              passes |-> IF op \in {"zoomend", "toggleSatellite"} THEN w.passes ELSE 0,
              nestedInFlight |-> IF op = "zoomend" THEN w.nestedInFlight ELSE 0,
              nestedLate |-> IF op = "zoomend" THEN w.nestedLate ELSE 0]

EnvOk == Env("ok", "ok", FALSE, "ok", 0, 0)

\* the tile layer's addTo throws: only an operation that attaches it can tell
SatFailEnvs == IF map.layers[SatelliteLayer] > 0 THEN {} ELSE {Env("ok", "ok", TRUE, "ok", 0, 0)}

\* the engine's outcomes for the first and the later rebuild passes of one
\* operation: only an operation that reaches mask.addTo can tell them apart
EngineEnvs == {Env(f1, f2, FALSE, "ok", 0, 0) : f1 \in FailModes, f2 \in FailModes}

HandlesMissing == state.maskLayer = NoLayer \/ state.snowOutlineLayer = NoLayer

HasUsableZone(roll) == roll \in DOMAIN snowByRoll /\ ringsSupported(snowByRoll[roll])

\* outcomes the zoomends delivered while `roll` is selected can tell apart
ZoomEnvs(roll) ==
  IF ~state.satOn THEN {EnvOk}
  ELSE {EnvOk} \cup SatFailEnvs
         \cup (IF HandlesMissing /\ HasUsableZone(roll) THEN EngineEnvs ELSE {})

\* outcomes one zoomend with no burst can tell apart: it makes one pass
OneZoomEnvs(roll) == {e \in ZoomEnvs(roll) : e.fail2 = "ok"}

\* outcomes toggleSatellite(force) can tell apart: a second pass happens only
\* when its setZoom delivers a zoomend, and the notifications of a burst
\* during its own pass are all gated alike
ToggleEnvs(force) ==
  IF ~Resolve(force, state.satOn) \/ Falsy(state.selectedRoll) THEN {EnvOk}
  ELSE {EnvOk} \cup SatFailEnvs
         \cup (IF HasUsableZone(state.selectedRoll)
               THEN {[e EXCEPT !.burst1 = b] :
                       e \in {x \in EngineEnvs : x.fail2 = "ok" \/ map.zoom < satelliteEnableMinZoom},
                       b \in {0, MaxBurst}}
               ELSE {})

\* a zoomend rebuild in the current state gets as far as mask.addTo
RebuildReachesEngine ==
  /\ state.satOn
  /\ HandlesMissing
  /\ HasUsableZone(state.selectedRoll)

OnOff(b) == IF b THEN "on" ELSE "off"

\* the canvas is above the map while it takes pointer events
MapClickable == canvas.pointerEvents = "none"

\* address search: the best row's roll
OnGo ==
  \E roll \in Rolls : \E env \in ZoomEnvs(roll) :
    Commit(onGo(World, roll, env), "enter", roll)

OnGoNoMatch ==
  \E roll \in {None} :
    Commit(onGo(World, roll, EnvOk), "nomatch", "")

OnParcelClick ==
  \E roll \in parcelByRoll : \E env \in ZoomEnvs(roll) :
    /\ MapClickable
    /\ Commit(onParcelClick(World, roll, env),
              IF state.isQueryStage /\ state.selectedRoll = roll THEN "openPanel" ELSE "enter", roll)

\* right-click, then "View" in the context menu
OnContextMenuView ==
  \E roll \in parcelByRoll : \E env \in ZoomEnvs(roll) :
    /\ MapClickable
    /\ Commit(enterQueryStage(World, roll, [center |-> FALSE, source |-> "right-click"], env),
              "enter", roll)

PanelToggleSatellite ==
  \E env \in ToggleEnvs("undefined") :
    /\ panel
    /\ Commit(toggleSatellite(World, "undefined", env), "toggleSatellite", OnOff(~state.satOn))

PanelToggleSize ==
  \E zf \in IF state.sizeOn THEN {"ok"} ELSE SizeFailModes :
    /\ panel
    /\ Commit(toggleSize(World, "undefined", [EnvOk EXCEPT !.sizeFail = zf]), "toggleSize", OnOff(~state.sizeOn))

PanelToggleDraw ==
  \E env \in IF state.drawEnabled \/ state.satOn THEN OneZoomEnvs(state.selectedRoll) ELSE ToggleEnvs("true") :
    /\ panel
    /\ Commit(toggleDraw(World, "undefined", env), "toggleDraw", OnOff(~state.drawEnabled))

\* the panel's Exit button
ClosePanel ==
  /\ panel
  /\ Commit(closePanel(World, EnvOk), "closePanel", "")

\* the topbar checkbox: toggleSatellite(!!checked)
SatToggleChange ==
  \E checked \in {"true", "false"} :
    \E env \in ToggleEnvs(checked) :
      /\ Resolve(checked, FALSE) # state.satOn
      /\ Commit(toggleSatellite(World, checked, env), "toggleSatellite", OnOff(Resolve(checked, FALSE)))

\* one firing of a live interval timer
BlinkTick ==
  \E id \in timers :
    Commit(blinkTick(World), "tick", "")

\* the user zooms the map to another level; the engine reports zoomend
UserZoom ==
  \E z \in UserZoomLevels \ {map.zoom}, env \in OneZoomEnvs(state.selectedRoll) :
    /\ ~map.locked
    /\ Commit(onZoomEnd([World EXCEPT !.map.zoom = z], env, 0, 0), "zoomend", "")

\* the same, with a burst of further zoomend notifications delivered while
\* the handler's rebuild passes are inside the engine
UserZoomBurst ==
  \E z \in UserZoomLevels \ {map.zoom}, env \in EngineEnvs,
     b1 \in 0..MaxBurst, b2 \in 0..MaxLateBurst :
    /\ ~map.locked
    /\ RebuildReachesEngine
    /\ b1 + b2 > 0
    /\ Commit(onZoomEnd([World EXCEPT !.map.zoom = z], env, b1, b2), "zoomend", "")

Next ==
  \/ OnGo
  \/ OnGoNoMatch
  \/ OnParcelClick
  \/ OnContextMenuView
  \/ PanelToggleSatellite
  \/ PanelToggleSize
  \/ PanelToggleDraw
  \/ ClosePanel
  \/ SatToggleChange
  \/ BlinkTick
  \/ UserZoom
  \/ UserZoomBurst

Spec == Init /\ [][Next]_vars

\* exitQueryStage called directly, as its contract allows, in any state
ExitQueryStage ==
  \E env \in {EnvOk} :
    Commit(exitQueryStage(World, env), "exit", "")

NextApi == Next \/ ExitQueryStage

SpecApi == Init /\ [][NextApi]_vars

\* address search whose best row has the empty string as its roll:
\* buildAddressIndex keeps every row whose join key is not null
OnGoEmptyRoll ==
  \E roll \in {EmptyRoll} : \E env \in ZoomEnvs(roll) :
    Commit(onGo(World, roll, env), "enter", roll)

NextEmptyRoll == Next \/ OnGoEmptyRoll

SpecEmptyRoll == Init /\ [][NextEmptyRoll]_vars

\* a stroke on the canvas, which takes the pointer while draw mode is on
OnDown ==
  /\ canvas.pointerEvents = "auto"
  /\ state._drawHandlers
  /\ Commit(onDown(World), "stroke", RollText(state.selectedRoll))

CaptureModes == {"ok", "failed"}

PanelSaveSnowbridge ==
  \E capture \in CaptureModes :
    /\ panel
    /\ Commit(saveSnowbridge(World, capture, EnvOk), "save", capture)

PanelDeleteSnowbridge ==
  \E ok \in BOOLEAN :
    /\ panel
    /\ Commit(deleteSnowbridge(World, ok), "delete", IF ok THEN "ok" ELSE "cancel")

\* the answers to the severity prompt
SeverityAnswers ==
  {<<"r", "e", "d">>, <<" ", "R", "E", "D", " ">>, <<"g", "r", "e", "e", "n">>,
   <<"b", "l", "u", "e">>, <<>>}

PanelOpenRequestForm ==
  \E severityRaw \in SeverityAnswers :
    /\ panel
    /\ Commit(openRequestForm(World, severityRaw), "request",
              IF severityOf(severityRaw) = Null THEN "invalid" ELSE severityOf(severityRaw)[1])

\* the events of a drawing session: clicks on parcels, the panel's Draw,
\* Save, Request, Delete and Exit buttons, and strokes on the canvas
NextRecords ==
  \/ OnParcelClick
  \/ PanelToggleDraw
  \/ ClosePanel
  \/ OnDown
  \/ PanelSaveSnowbridge
  \/ PanelDeleteSnowbridge
  \/ PanelOpenRequestForm

SpecRecords == Init /\ [][NextRecords]_vars

\* a click on "Apply layer" (or the call made by main for a shared link)
ApplyLayerSelection ==
  \E product \in {"boundary", "sample", "ortho", "dem"}, year \in {"", "2020"} :
    /\ web.calls < MaxCalls
    /\ web' = applyLayerSelection(web, product, year)
    /\ UNCHANGED <<state, map, timers, status, emitted, panel, canvas, last, rank, calc, db>>

\* the fetch of a waiting call settles, in any order
LoadGeoJsonLayerSettled ==
  \E c \in DOMAIN web.pending, outcome \in {"ok", "failed"} :
    /\ web.pending[c] # Null
    /\ web' = loadGeoJsonLayerSettled(web, c, outcome)
    /\ UNCHANGED <<state, map, timers, status, emitted, panel, canvas, last, rank, calc, db>>

NextWeb == ApplyLayerSelection \/ LoadGeoJsonLayerSettled

SpecWeb == Init /\ [][NextWeb]_vars

\* enableDrawMode called directly with its default deps (ensureSatelliteOn)
EnableDrawMode ==
  \E env \in IF state.satOn THEN OneZoomEnvs(state.selectedRoll) ELSE ToggleEnvs("true") :
    /\ ~state.drawEnabled
    /\ Commit(enableDrawMode(World, TRUE, env), "enableDraw", "")

NextDraw == Next \/ EnableDrawMode

SpecDraw == Init /\ [][NextDraw]_vars

\* the teardown operations called directly in a state where the operation
\* has nothing to tear down
NoBlink == state.blinkTimer = 0

NoViewOverlays == state.maskLayer = NoLayer /\ state.snowOutlineLayer = NoLayer

NoSizeOverlays == state.sizeOutlineLayer = NoLayer /\ state.sizeLabelMarker = NoLayer

StopBlinkIdle ==
  /\ NoBlink
  /\ Commit(stopBlink(World), "teardown", "stopBlink")

ClearViewOverlaysIdle ==
  /\ NoViewOverlays
  /\ Commit(clearViewOverlays(World), "teardown", "clearViewOverlays")

ClearSizeOverlaysIdle ==
  /\ NoSizeOverlays
  /\ Commit(clearSizeOverlays(World), "teardown", "clearSizeOverlays")

ToggleSatelliteOffIdle ==
  /\ ~state.satOn
  /\ NoViewOverlays
  /\ Commit(toggleSatellite(World, "false", EnvOk), "teardown", "toggleSatellite")

ToggleSizeOffIdle ==
  /\ ~state.sizeOn
  /\ NoSizeOverlays
  /\ Commit(toggleSize(World, "false", EnvOk), "teardown", "toggleSize")

DisableDrawModeIdle ==
  /\ ~state.drawEnabled
  /\ ~state._drawHandlers
  /\ Commit(disableDrawMode(World), "teardown", "disableDrawMode")

NextTeardown ==
  \/ Next
  \/ StopBlinkIdle
  \/ ClearViewOverlaysIdle
  \/ ClearSizeOverlaysIdle
  \/ ToggleSatelliteOffIdle
  \/ ToggleSizeOffIdle
  \/ DisableDrawModeIdle

SpecTeardown == Init /\ [][NextTeardown]_vars

\* toggleSatellite(true) and toggleSize(true) called directly while the
\* overlay is On
ForceSatelliteOn ==
  \E env \in ToggleEnvs("true") :
    /\ state.satOn
    /\ Commit(toggleSatellite(World, "true", env), "forceOn", "satellite")

ForceSizeOn ==
  \E zf \in SizeFailModes :
    /\ state.sizeOn
    /\ Commit(toggleSize(World, "true", [EnvOk EXCEPT !.sizeFail = zf]), "forceOn", "size")

NextForce == Next \/ ForceSatelliteOn \/ ForceSizeOn

SpecForce == Init /\ [][NextForce]_vars

\* getSuggestions as a function of its arguments: the application state is
\* the one after init() and stays so
InitRank ==
  /\ state = createState
  /\ map = [zoom |-> startZoom, layers |-> [l \in Layers |-> 0], locked |-> FALSE,
            style |-> [r \in parcelByRoll |-> "idle"]]
  /\ timers = {}
  /\ status = Msg("Ready: addresses loaded", "", "")
  /\ emitted = <<>>
  /\ panel = FALSE
  /\ canvas = [display |-> "none", pointerEvents |-> "none", strokes |-> {}]
  /\ db = loadDB
  /\ web = main
  /\ last = [op |-> "init", arg |-> "", from |-> None, repeat |-> FALSE, passes |-> 0,
             nestedInFlight |-> 0, nestedLate |-> 0]
  /\ \E q \in Queries, rs \in RowLists, l \in Limits :
       rank = [NoRanking EXCEPT !.query = q, !.rows = rs, !.limit = l]
  /\ calc = NoCalc

\* getSuggestions(query, rows, limit)
GetSuggestions ==
  /\ rank.runs = 0
  /\ rank' = [rank EXCEPT !.out = getSuggestions(rank.query, rank.rows, rank.limit),
                          !.runs = 1]
  /\ UNCHANGED <<state, map, timers, status, emitted, panel, canvas, last, calc, db, web>>

\* a second run on the same rows presented in another order
GetSuggestionsReordered ==
  \E p \in Reorderings(rank.rows) :
    /\ rank.runs = 1
    /\ rank' = [rank EXCEPT
                  !.again = getSuggestions(rank.query,
                                           [i \in 1..Len(rank.rows) |-> rank.rows[p[i]]],
                                           rank.limit),
                  !.runs = 2]
    /\ UNCHANGED <<state, map, timers, status, emitted, panel, canvas, last, calc, db, web>>

NextRank == GetSuggestions \/ GetSuggestionsReordered

SpecRank == InitRank /\ [][NextRank]_vars

\* the helpers of map/geometry.js as functions of their arguments: the
\* application state is the one after init() and stays so
InitGeom ==
  /\ state = createState
  /\ map = [zoom |-> startZoom, layers |-> [l \in Layers |-> 0], locked |-> FALSE,
            style |-> [r \in parcelByRoll |-> "idle"]]
  /\ timers = {}
  /\ status = Msg("Ready: addresses loaded", "", "")
  /\ emitted = <<>>
  /\ panel = FALSE
  /\ canvas = [display |-> "none", pointerEvents |-> "none", strokes |-> {}]
  /\ db = loadDB
  /\ web = main
  /\ last = [op |-> "init", arg |-> "", from |-> None, repeat |-> FALSE, passes |-> 0,
             nestedInFlight |-> 0, nestedLate |-> 0]
  /\ rank = NoRanking
  /\ \/ \E m2 \in Areas : calc = [NoCalc EXCEPT !.fn = "fmtArea", !.m2 = m2]
     \/ \E geom \in Geoms, L \in BOOLEAN :
          calc = [NoCalc EXCEPT !.fn = "createOutsideMaskFromGeom", !.geom = geom, !.L = L]

\* fmtArea(m2)
FmtArea ==
  /\ calc.fn = "fmtArea"
  /\ ~calc.done
  /\ calc' = [calc EXCEPT !.text = fmtArea(calc.m2), !.done = TRUE]
  /\ UNCHANGED <<state, map, timers, status, emitted, panel, canvas, last, rank, db, web>>

\* createOutsideMaskFromGeom(geom, polygonLatLngRingsFromGeoJSON(geom), L)
CreateOutsideMaskFromGeom ==
  /\ calc.fn = "createOutsideMaskFromGeom"
  /\ ~calc.done
  /\ calc' = [calc EXCEPT
                !.mask = createOutsideMaskFromGeom(calc.geom,
                                                   polygonLatLngRingsFromGeoJSON(calc.geom),
                                                   calc.L),
                !.done = TRUE]
  /\ UNCHANGED <<state, map, timers, status, emitted, panel, canvas, last, rank, db, web>>

NextGeom == FmtArea \/ CreateOutsideMaskFromGeom

SpecGeom == InitGeom /\ [][NextGeom]_vars

(* ---------------- properties ---------------- *)

Ready == Msg("Ready", "", "")

SelectFirst == Msg("Select a parcel first", "", "")

\* the last operation ran exitQueryStage
Exited == last.op \in {"exit", "closePanel"}

OffTexts == {"Satellite OFF", "Size OFF", "Draw OFF"}

Handles == {state.maskLayer, state.snowOutlineLayer, state.sizeOutlineLayer, state.sizeLabelMarker}

\* C1: every overlay handle that is set was built for the selected roll; no
\* mask, outline or size handle refers to another roll.
C1_OverlayBuiltForSelectedRoll ==
  \A h \in Handles : h # NoLayer => h.roll = state.selectedRoll

\* C2: a toggle On refused with "Select a parcel first" leaves the overlay's
\* on-flag false.
C2_RefusedToggleStaysOff ==
  /\ (last.op = "toggleSatellite" /\ status = SelectFirst) => ~state.satOn
  /\ (last.op = "toggleSize" /\ status = SelectFirst) => ~state.sizeOn

\* C3: toggling the satellite overlay On for an active roll with no zone ends
\* with satOn false, the "zone not found" status and no mask or outline.
C3_NoZoneToggleEndsOff ==
  (/\ last.op = "toggleSatellite"
   /\ last.arg = "on"
   /\ state.selectedRoll \in Rolls \ DOMAIN snowByRoll)
  => /\ ~state.satOn
     /\ status = Msg("Snow zone not found", "", "")
     /\ state.maskLayer = NoLayer
     /\ state.snowOutlineLayer = NoLayer

C3_Witness ==
  /\ last.op = "toggleSatellite"
  /\ last.arg = "on"
  /\ state.selectedRoll \in Rolls \ DOMAIN snowByRoll

\* C4: a zoomend handler whose burst of further notifications all arrived
\* during its in-flight pass makes at most two rebuild passes.
C4_AtMostTwoPasses ==
  (last.op = "zoomend" /\ last.nestedLate = 0) => last.passes <= 2

C4_Witness ==
  /\ last.op = "zoomend"
  /\ last.nestedInFlight = MaxBurst
  /\ last.nestedLate = 0
  /\ last.passes = 2

\* C5: between handlers, when no rebuild is executing, _satRebuildInFlight is
\* false.
C5_InFlightFalseAtRest == ~state._satRebuildInFlight

C5_Witness ==
  /\ last.op = "toggleSatellite"
  /\ last.arg = "on"
  /\ last.passes > 0
  /\ ~state.satOn

\* C6: outside query stage there is no live timer and blinkOn is false, and
\* blinkOn changes, and a blink tick fires, only in query stage.
C6_BlinkOnlyInQueryStage ==
  /\ [](~state.isQueryStage => timers = {} /\ state.blinkTimer = 0 /\ ~state.blinkOn)
  /\ [][(state'.blinkOn # state.blinkOn => state.isQueryStage \/ state'.isQueryStage)
        /\ (last'.op = "tick" => state.isQueryStage)]_vars

C6_Witness == Exited /\ last.from \in Rolls /\ timers = {} /\ ~state.blinkOn

\* C7: at most one blink timer is live, exactly one in query stage and none
\* outside, and an enter repeated for the same roll leaves the state of the
\* first enter.
C7_EnterTwiceOneTimer ==
  /\ [](/\ Cardinality(timers) <= 1
        /\ state.isQueryStage <=> timers # {}
        /\ timers = (IF state.blinkTimer = 0 THEN {} ELSE {state.blinkTimer}))
  /\ [][(last.op = "enter" /\ last'.op = "enter" /\ last'.arg = last.arg)
        => /\ state'.selectedRoll = last.arg
           /\ state'.isQueryStage /\ state.isQueryStage
           /\ state'.blinkOn /\ state.blinkOn
           /\ Cardinality(timers') = 1
           /\ map'.zoom = map.zoom
           /\ map'.locked = map.locked
           /\ panel' = panel
           /\ state'.satOn = state.satOn
           /\ state'.sizeOn = state.sizeOn
           /\ state'.drawEnabled = state.drawEnabled
           /\ status'.text = "Query" /\ status'.roll = last.arg]_vars

C7_Witness == last.op = "enter" /\ last.repeat /\ state.selectedRoll = last.arg

\* C8: exitQueryStage called after exitQueryStage changes nothing and leaves
\* the Ready status.
C8_ExitTwiceNoOp ==
  [][(Exited /\ last'.op = "exit")
     => /\ state' = state
        /\ map' = map
        /\ timers' = timers
        /\ panel' = panel
        /\ canvas' = canvas
        /\ status = Ready
        /\ status' = Ready]_vars

C8_Witness == last.op = "exit" /\ last.repeat /\ status = Ready

\* C9: every OFF status emitted by exitQueryStage names the outgoing roll,
\* the satellite and size teardowns both ran, and the selection is cleared
\* by the time Ready is emitted.
C9_TeardownBeforeClear ==
  Exited
  => /\ \A i \in DOMAIN emitted :
          emitted[i].text \in OffTexts => emitted[i].roll = RollText(last.from)
     /\ \E i, j \in DOMAIN emitted :
          /\ i < j
          /\ emitted[i].text = "Satellite OFF"
          /\ emitted[j].text = "Size OFF"
     /\ emitted[Len(emitted)] = Ready
     /\ state.selectedRoll = None

C9_Witness ==
  /\ Exited
  /\ last.from \in Rolls
  /\ \E i \in DOMAIN emitted : emitted[i] = Msg("Draw OFF", last.from, "")

\* C10: after exitQueryStage the stage is Idle, nothing is selected, every
\* overlay is Off with no handle, and the status is Ready.
C10_AfterExitAllOff ==
  Exited
  => /\ ~state.isQueryStage
     /\ state.selectedRoll = None
     /\ ~state.satOn
     /\ ~state.sizeOn
     /\ ~state.drawEnabled
     /\ Handles = {NoLayer}
     /\ status = Ready

C10_Witness ==
  /\ last.op = "closePanel"
  /\ last.from = "r1"
  /\ Len(emitted) = 5
  /\ map.layers[SatelliteLayer] = 0

\* C11: only the selected roll of the query stage is drawn with the active
\* style, and a blink tick changes the style of no other parcel.
C11_OnlySelectedHighlighted ==
  /\ [](\A r \in parcelByRoll :
          map.style[r] # "idle" => (r = state.selectedRoll /\ state.isQueryStage))
  /\ [][last'.op = "tick"
        => \A r \in parcelByRoll \ {state.selectedRoll} : map'.style[r] = map.style[r]]_vars

C11_Witness ==
  /\ last.op = "tick"
  /\ state.selectedRoll = "r2"
  /\ map.style["r2"] = "activeB"
  /\ map.style["r1"] = "idle"

\* the statuses of a satellite toggle On that did not end On
SatFailTexts ==
  {"Select a parcel first", "Snow zone not found",
   "Unable to build mask from snow zone geometry", "Unable to create mask layer",
   "Unable to enable satellite layer"}

\* C12: enabling draw mode when the attempt to turn the satellite overlay On
\* failed leaves drawEnabled false and the map unlocked.
C12_FailedSatelliteNoDraw ==
  (/\ last.op \in {"enableDraw", "toggleDraw"}
   /\ last.arg # "off"
   /\ \E i \in DOMAIN emitted : emitted[i].text \in SatFailTexts)
  => (~state.drawEnabled /\ ~map.locked)

\* C13: draw mode is never enabled while the satellite overlay is Off.
C13_DrawImpliesSatellite == state.drawEnabled => state.satOn

\* C14: a satellite toggle On whose rebuild failed ends with satOn false and
\* the status of its failure kind: the geometry status when the zone has no
\* rings, the mask-layer status when the layers could not be created.
C14_GeometryFailureStatus ==
  (/\ last.op = "toggleSatellite"
   /\ last.arg = "on"
   /\ state.selectedRoll \in DOMAIN snowByRoll)
  => LET rings == ringsSupported(snowByRoll[state.selectedRoll])
         geometry == "Unable to build mask from snow zone geometry"
         create == "Unable to create mask layer"
     IN /\ ~rings => ~state.satOn
        /\ status.text \in {geometry, create} => ~state.satOn
        /\ (~state.satOn /\ status.text # "Unable to enable satellite layer")
             => status.text = (IF rings THEN create ELSE geometry)

C14_Witness ==
  /\ last.op = "toggleSatellite"
  /\ last.arg = "on"
  /\ state.selectedRoll = "r2"
  /\ ~state.satOn
  /\ status = Msg("Unable to build mask from snow zone geometry", "", "")

\* C15: while satOn is false the mask and outline handles are empty and the
\* satellite imagery layer is not attached to the map.
C15_OffMeansNothingAttached ==
  ~state.satOn
  => /\ state.maskLayer = NoLayer
     /\ state.snowOutlineLayer = NoLayer
     /\ map.layers[SatelliteLayer] = 0

\* C16: a size toggle On with an active roll ends either On with the outline
\* and the label attached, or Off with no size handle.
C16_SizeOnOrRolledBack ==
  (/\ last.op = "toggleSize"
   /\ last.arg = "on"
   /\ state.selectedRoll # None)
  => \/ /\ state.sizeOn
        /\ state.sizeOutlineLayer # NoLayer
        /\ state.sizeLabelMarker # NoLayer
        /\ hasLayer(World, state.sizeOutlineLayer)
        /\ hasLayer(World, state.sizeLabelMarker)
     \/ /\ ~state.sizeOn
        /\ state.sizeOutlineLayer = NoLayer
        /\ state.sizeLabelMarker = NoLayer

\* C17: a left-click on the active roll of the query stage changes nothing
\* but the panel, which is open afterwards.
C17_ReclickOnlyOpensPanel ==
  [][last'.op = "openPanel"
     => /\ state' = state
        /\ map' = map
        /\ timers' = timers
        /\ canvas' = canvas
        /\ status' = status
        /\ panel']_vars

C17_Witness ==
  /\ last.op = "openPanel"
  /\ panel
  /\ state.isQueryStage
  /\ ~state.blinkOn
  /\ state.sizeOn

\* C18: when a row's normalized label equals the normalized query, the rows
\* returned start with the exact matches, ahead of every other row.
C18_ExactMatchFirst ==
  LET qNorm == normalizeAddr(rank.query)
  IN (/\ rank.runs >= 1
      /\ rank.limit >= 1
      /\ qNorm # <<>>
      /\ \E i \in DOMAIN rank.rows : rank.rows[i].norm = qNorm)
     => /\ rank.out # <<>>
        /\ rank.out[1].norm = qNorm
        /\ \A i, j \in DOMAIN rank.out :
              (i < j /\ rank.out[j].norm = qNorm) => rank.out[i].norm = qNorm

\* C19: a second run of getSuggestions on the same rows in any other order
\* returns the output of the first run.
C19_OrderIndependent == rank.runs = 2 => rank.again = rank.out

C19_Witness ==
  /\ rank.runs = 2
  /\ Len(rank.out) = MaxRows
  /\ rank.out[1].label = rank.out[2].label
  /\ rank.out[1].roll # rank.out[2].roll

\* x is ranked strictly before y for the normalized query q: score
\* descending, then label, roll, latitude, longitude, normalized label ascending
RankedBefore(x, y, q) ==
  LET sx == scoreAddressCandidate(q, x.norm)
      sy == scoreAddressCandidate(q, y.norm)
  IN \/ sx > sy
     \/ /\ sx = sy
        /\ \/ localeCompare(x.label, y.label) < 0
           \/ /\ x.label = y.label
              /\ \/ localeCompare(x.roll, y.roll) < 0
                 \/ /\ x.roll = y.roll
                    /\ \/ x.lat < y.lat
                       \/ /\ x.lat = y.lat
                          /\ \/ x.lng < y.lng
                             \/ /\ x.lng = y.lng
                                /\ localeCompare(x.norm, y.norm) < 0

\* C20: getSuggestions returns the rows of positive score in ranked order,
\* cut to the first `limit` rows, and nothing for an empty normalized query.
C20_PositiveSortedTruncated ==
  LET q == normalizeAddr(rank.query)
      positive == {rank.rows[i] : i \in {j \in DOMAIN rank.rows :
                                          scoreAddressCandidate(q, rank.rows[j].norm) > 0}}
      returned == {rank.out[i] : i \in DOMAIN rank.out}
  IN rank.runs >= 1
     => IF q = <<>> THEN rank.out = <<>>
        ELSE /\ Len(rank.out) = Min(rank.limit, Cardinality(positive))
             /\ Cardinality(returned) = Len(rank.out)
             /\ returned \subseteq positive
             /\ \A i \in 1..(Len(rank.out) - 1) : RankedBefore(rank.out[i], rank.out[i + 1], q)
             /\ \A r \in positive \ returned, x \in returned : RankedBefore(x, r, q)

C20_Witness ==
  /\ rank.runs = 1
  /\ rank.limit = 1
  /\ Len(rank.rows) = MaxRows
  /\ Len(rank.out) = 1
  /\ rank.out[1] # rank.rows[1]
  /\ \E i \in DOMAIN rank.rows :
       scoreAddressCandidate(normalizeAddr(rank.query), rank.rows[i].norm) = 0

\* C21 (as stated): fmtArea(5000) is "5000 m²" and fmtArea(5000000) is an
\* acres string, "1235.53 acres".
C21_FiveThousandSquareMetres ==
  (calc.fn = "fmtArea" /\ calc.done)
  => /\ calc.m2 = Number(50000) => calc.text = "5000 m²"
     /\ calc.m2 = Number(50000000) => calc.text = "1235.53 acres"

\* C21 (amended): fmtArea(5000) is "1.24 acres", 5000 square metres being more
\* than one acre; fmtArea(4000) is "4000 m²" and fmtArea(5000000) is
\* "1235.53 acres".
C21_FiveThousandIsAcres ==
  (calc.fn = "fmtArea" /\ calc.done)
  => /\ calc.m2 = Number(50000) => calc.text = "1.24 acres"
     /\ calc.m2 = Number(40000) => calc.text = "4000 m²"
     /\ calc.m2 = Number(50000000) => calc.text = "1235.53 acres"

C21_Witness == calc.fn = "fmtArea" /\ calc.done /\ calc.m2 = Number(50000)

\* C22: fmtArea is "n/a" for an input that is not a finite number; otherwise
\* it is the acres to the nearest hundredth, with two decimals, exactly when
\* the area is at least one acre, and the square metres to the nearest
\* integer otherwise.
C22_AcresOrSquareMetres ==
  LET t == calc.m2.tenths
      acres == acresHundredths(t)
  IN (calc.fn = "fmtArea" /\ calc.done)
     => IF calc.m2.kind # "number" THEN calc.text = "n/a"
        ELSE IF acres.q >= 100
          THEN \E n \in {acres.q, acres.q + 1} :
                 /\ n = acres.q => 2 * acres.r <= ChainNum * ChainNum
                 /\ n = acres.q + 1 => 2 * acres.r >= ChainNum * ChainNum
                 /\ calc.text = ToString(n \div 100) \o "." \o ToString((n \div 10) % 10)
                                  \o ToString(n % 10) \o " acres"
        ELSE \E n \in {t \div 10, (t \div 10) + 1} :
               /\ (10 * n) - t <= 5
               /\ t - (10 * n) <= 5
               /\ calc.text = ToString(n) \o " m²"

C22_Witness ==
  /\ calc.fn = "fmtArea"
  /\ calc.done
  /\ calc.m2 = Number(40469)
  /\ calc.text = "1.00 acres"

\* the rings of a mask after the world ring
HolesOf(mask) == Tail(mask[1].latlngs)

\* ring is the GeoJSON ring `coordinates` with each <<lng, lat>> as <<lat, lng>>
IsLatLngRingOf(ring, coordinates) ==
  /\ Len(ring) = Len(coordinates)
  /\ \A i \in 1..Len(ring) : ring[i] = <<coordinates[i][2], coordinates[i][1]>>

C24_NullOrHoles ==
  (calc.fn = "createOutsideMaskFromGeom" /\ calc.done)
  => /\ calc.geom.type \notin {"Polygon", "MultiPolygon"} => calc.mask = Null
     /\ calc.mask # Null => Len(HolesOf(calc.mask)) >= 1

\* the selection, the overlay flags and the overlay handles
Owned(st) ==
  <<st.selectedRoll, st.isQueryStage, st.satOn, st.sizeOn, st.drawEnabled,
    st.maskLayer, st.snowOutlineLayer, st.sizeOutlineLayer, st.sizeLabelMarker,
    st.blinkTimer>>

\* C25: a teardown operation called when it has nothing to tear down leaves
\* the selection, the overlay flags, the handles and the live timers as
\* they were.
C25_TeardownIdempotent ==
  [][last'.op = "teardown" => (Owned(state') = Owned(state) /\ timers' = timers)]_vars

C25_Witness ==
  /\ last.op = "teardown"
  /\ last.arg = "disableDrawMode"
  /\ state.satOn
  /\ state.sizeOn
  /\ state.selectedRoll # None

\* a zoomend notification made a rebuild pass and the overlays are not there
FailedZoomEndRebuild ==
  /\ last.op = "zoomend"
  /\ last.passes >= 1
  /\ (state.maskLayer = NoLayer \/ state.snowOutlineLayer = NoLayer)

\* C26: a rebuild that fails in the zoomend handler emits no status, leaves
\* satOn true and both handles empty, and the next zoomend notification
\* makes a rebuild pass again.
C26_ZoomEndFailureSwallowed ==
  /\ [](FailedZoomEndRebuild
         => /\ emitted = <<>>
            /\ state.satOn
            /\ state.maskLayer = NoLayer
            /\ state.snowOutlineLayer = NoLayer)
  /\ [][(FailedZoomEndRebuild /\ last'.op = "zoomend") => last'.passes >= 1]_vars

\* C27 (as stated): after enterQueryStage(roll) for a roll of the parcel
\* registry the zoom is at least the query zoom and not lower than before the
\* call.
C27_NeverZoomsOut ==
  [][(last'.op = "enter" /\ last'.arg \in parcelByRoll)
       => (map'.zoom >= queryZoom /\ map'.zoom >= map.zoom)]_vars

\* C27 (amended): after enterQueryStage(roll) the zoom is at least the query
\* zoom; for a roll of the parcel registry it is the larger of the zoom that
\* fits the parcel and the query zoom, which may be lower than before the
\* call; for any other roll, where nothing is fitted, it is not lower than
\* before the call.
C27_FitThenAtLeastQueryZoom ==
  [][last'.op = "enter"
       => /\ map'.zoom >= queryZoom
          /\ last'.arg \in parcelByRoll => map'.zoom = Max(FitZoom[last'.arg], queryZoom)
          /\ last'.arg \notin parcelByRoll => map'.zoom >= map.zoom]_vars

C27_Witness ==
  /\ last.op = "enter"
  /\ last.arg = "r1"
  /\ state.drawEnabled
  /\ map.locked
  /\ map.zoom = queryZoom

\* C28: zoomend notifications that arrive while the handler's rebuild is in
\* flight make no rebuild pass of their own; when the rebuild finishes the
\* pending flag is cleared and exactly one more pass is made, two in all.
C28_OneMorePass ==
  (last.op = "zoomend" /\ last.nestedInFlight >= 1 /\ last.nestedLate = 0)
  => /\ last.passes = 2
     /\ ~state._satRebuildPending
     /\ ~state._satRebuildInFlight

\* C29: a zoomend notification received while satOn is false, or while the
\* mask and the outline handle are both set, makes no rebuild pass and leaves
\* satOn, the two handles and the two rebuild flags as they were.
C29_NothingToRebuild ==
  [][(/\ last'.op = "zoomend"
      /\ \/ ~state.satOn
         \/ (state.maskLayer # NoLayer /\ state.snowOutlineLayer # NoLayer))
       => /\ last'.passes = 0
          /\ state'.satOn = state.satOn
          /\ state'.maskLayer = state.maskLayer
          /\ state'.snowOutlineLayer = state.snowOutlineLayer
          /\ state'._satRebuildInFlight = state._satRebuildInFlight
          /\ state'._satRebuildPending = state._satRebuildPending]_vars

C29_Witness ==
  /\ last.op = "zoomend"
  /\ last.passes = 0
  /\ state.satOn
  /\ state.maskLayer # NoLayer
  /\ state.snowOutlineLayer # NoLayer

\* C30: a toggle without `force` negates the flag, and a toggle forced On
\* while the overlay is On for the selected roll ends, when it reports On,
\* with the flag On and exactly one mask and one outline (one size outline
\* and one label) attached.
C30_ForcedOnNoDuplicate ==
  /\ [][(last'.op = "toggleSatellite" /\ state.satOn) => ~state'.satOn]_vars
  /\ [][(last'.op = "toggleSize" /\ state.sizeOn) => ~state'.sizeOn]_vars
  /\ [][(last'.op = "forceOn" /\ last'.arg = "satellite" /\ status'.text = "Satellite ON")
          => /\ state'.satOn
             /\ map'.layers[Layer("mask", state.selectedRoll)] = 1
             /\ map'.layers[Layer("snowOutline", state.selectedRoll)] = 1]_vars
  /\ [][(last'.op = "forceOn" /\ last'.arg = "size" /\ status'.text = "Size")
          => /\ state'.sizeOn
             /\ map'.layers[Layer("sizeOutline", state.selectedRoll)] = 1
             /\ map'.layers[Layer("sizeLabel", state.selectedRoll)] = 1]_vars

\* C32: a candidate that neither equals nor starts with the normalized query
\* scores less than 800, the score of a prefix match.
C32_PartialBelowPrefix ==
  LET qNorm == normalizeAddr(rank.query)
  IN rank.runs >= 1
     => \A i \in DOMAIN rank.rows :
          (rank.rows[i].norm # qNorm /\ ~startsWith(rank.rows[i].norm, qNorm))
          => scoreAddressCandidate(qNorm, rank.rows[i].norm) < 800

\* C33: imagery is never shown unmasked: whenever the satellite tile layer is
\* attached, a roll is active and the mask of its zone is attached and held
\* by state.maskLayer.
C33_NeverUnmasked ==
  map.layers[SatelliteLayer] > 0
  => /\ state.selectedRoll # None
     /\ state.maskLayer = Layer("mask", state.selectedRoll)
     /\ map.layers[state.maskLayer] > 0

\* C34: every attached mask or outline layer is the one state.maskLayer /
\* state.snowOutlineLayer refers to, and it is attached once.
C34_OverlaysOwned ==
  \A r \in Rolls :
    /\ map.layers[Layer("mask", r)] > 0
        => (state.maskLayer = Layer("mask", r) /\ map.layers[Layer("mask", r)] = 1)
    /\ map.layers[Layer("snowOutline", r)] > 0
        => (state.snowOutlineLayer = Layer("snowOutline", r)
            /\ map.layers[Layer("snowOutline", r)] = 1)

\* C35: when no rebuild is in flight, _satRebuildPending is false.
C35_PendingConsumed == ~state._satRebuildInFlight => ~state._satRebuildPending

\* C36: whenever the detail panel is visible, query stage is Active and
\* selectedRoll is a non-empty roll.
C36_PanelImpliesActiveRoll ==
  panel => (state.isQueryStage /\ ~Falsy(state.selectedRoll))

\* C37: isQueryStage is true exactly when selectedRoll is a non-empty roll.
C37_ActiveIffRoll == state.isQueryStage <=> ~Falsy(state.selectedRoll)

\* C31: the viewport input of the map is locked exactly while draw mode is
\* enabled: after every event, toggleDraw, the exit of query stage and
\* saveSnowbridge included, map.locked equals state.drawEnabled.
C31_LockedIffDrawEnabled == map.locked <=> state.drawEnabled

C31_Witness ==
  /\ last.op = "save"
  /\ Len(emitted) = 3
  /\ emitted[1].text = "Saved snowbridge"
  /\ status.text = "Draw OFF"
  /\ ~state.drawEnabled
  /\ ~map.locked

\* C38: every stored record has a request whose severity is green, yellow or
\* red (so a stored drawing comes with a request); saveSnowbridge leaves the
\* store as it was when the roll has no request; openRequestForm leaves it as
\* it was when there is no drawing, unsaved or stored, or when the severity
\* is invalid; a confirmed deleteSnowbridge removes the roll's whole record.
C38_RecordsHaveRequest ==
  /\ [](\A r \in DOMAIN db :
          db[r] # Null
          => (db[r][1].request # Null /\ db[r][1].request[1] \in DOMAIN Severities))
  /\ [][(last'.op = "save" /\ ~hasRequest(World, state.selectedRoll)) => db' = db]_vars
  /\ [][(/\ last'.op = "request"
         /\ \/ ~(state.hasUnsavedDrawing \/ hasStoredDrawing(World, state.selectedRoll))
            \/ last'.arg = "invalid")
          => db' = db]_vars
  /\ [][(last'.op = "delete" /\ last'.arg = "ok" /\ ~Falsy(state.selectedRoll))
          => db'[state.selectedRoll] = Null]_vars

C38_Witness ==
  /\ last.op = "delete"
  /\ last.arg = "ok"
  /\ status.text = "Deleted snowbridge"
  /\ db[state.selectedRoll] = Null
  /\ \E r \in DOMAIN db : hasStoredDrawing(World, r) /\ hasRequest(World, r)

\* C39: the drawing stored for a roll holds only strokes painted while that
\* roll was the selection, and hasUnsavedDrawing is set only while strokes
\* painted under the current selection are on the canvas.
C39_DrawingOfItsRoll ==
  /\ \A r \in DOMAIN db :
       hasStoredDrawing(World, r) => db[r][1].drawingDataUrl[1] \subseteq {r}
  /\ state.hasUnsavedDrawing => state.selectedRoll \in canvas.strokes

\* C40: in web/app.js at most one data layer is attached to the map, and it
\* is the one activeDataLayer refers to.
C40_OneDataLayer ==
  /\ Cardinality(web.attached) <= 1
  /\ \A layer \in web.attached : web.activeDataLayer = layer

====
